---- MODULE Spec2Model ----
(***************************************************************************)
(* Model of src/crawler_apify_heureka.py: the request handler of the       *)
(* Heureka crawler (request_handler, handle_category_playwright,           *)
(* handle_product) run by a pool of concurrent workers of the host         *)
(* crawler.  A handler is a coroutine: it runs atomically from one await   *)
(* to the next, and pc[h] names the await it is suspended at.              *)
(*                                                                         *)
(* Strings that the code searches with `in` / includes() are modelled as   *)
(* sequences of tokens, and substring search as search for a contiguous    *)
(* run of tokens.                                                          *)
(***************************************************************************)
EXTENDS Integers, Sequences, FiniteSets, TLC

\* ---------------------------------------------------------------- bounds
NumWorkers == 2
MaxPagesIn == 3
MaxProductsIn == 1
MaxOffers == 12
ExtractPages == 2

\* ------------------------------------------------------- program constants
Absent == -1
DefaultMaxPages == 100
DefaultMaxProducts == 1000
BATCH_SIZE == 20
TOP_OFFERS == 10

Workers == 1..NumWorkers

\* ------------------------------------------------------------- strings
RECURSIVE IndexOf(_, _, _)
IndexOf(s, t, i) ==
    IF i > Len(s) THEN 0
    ELSE IF s[i] = t THEN i
    ELSE IndexOf(s, t, i + 1)

\* Python's `sub in s`, JavaScript's s.includes(sub)
Contains(s, sub) ==
    \E i \in 1..(Len(s) - Len(sub) + 1) : SubSeq(s, i, i + Len(sub) - 1) = sub

Scheme == "https://"
Slash == "/"
ALLOWED == <<".heureka.cz">>

IGNORE_DOMAINS ==
    << <<"ucet", ".heureka.cz">>,
       <<"checkout", ".heureka.cz">>,
       <<"sluzby", ".heureka.cz">>,
       <<"napoveda", ".heureka.cz">>,
       <<"obchody", ".heureka.cz">> >>

WWW == <<"www", ".heureka.cz">>
UCET == <<"ucet", ".heureka.cz">>
EVIL == <<"evil", ".com">>

MkUrl(host, path) == <<Scheme>> \o host \o <<Slash>> \o path

\* the host part of an absolute URL: the tokens between the scheme and the
\* first slash
HostOf(url) ==
    LET k == IndexOf(url, Slash, 2)
    IN  IF k = 0 THEN SubSeq(url, 2, Len(url)) ELSE SubSeq(url, 2, k - 1)

\* new URL(href, baseUrl).href for an absolute href or an absolute-path
\* reference
Resolve(href, base) ==
    IF href[1] = Scheme THEN href
    ELSE <<Scheme>> \o HostOf(base) \o href

IsSuffix(suf, s) ==
    /\ Len(suf) <= Len(s)
    /\ SubSeq(s, Len(s) - Len(suf) + 1, Len(s)) = suf

\* the registrable domain of a URL, which the host's same-domain strategy
\* compares
DomainOf(url) ==
    LET h == HostOf(url) IN IF Len(h) = 0 THEN <<>> ELSE <<h[Len(h)]>>

Range(s) == {s[i] : i \in 1..Len(s)}

\* -------------------------------------------------- frontier (category)
\* a faulty variant: the ignored domains are looked for in the host only
IgnoredUrl_HostOnly(url) ==
    \E d \in 1..Len(IGNORE_DOMAINS) : Contains(HostOf(url), IGNORE_DOMAINS[d])

\* line 156 / line 179: any(domain in url for domain in IGNORE_DOMAINS)
IgnoredUrl(url) ==
    \E d \in 1..Len(IGNORE_DOMAINS) : Contains(url, IGNORE_DOMAINS[d])

\* line 145: url.includes('.heureka.cz'), and line 178: '.heureka.cz' in next_url
AllowedUrl(url) == Contains(url, ALLOWED)

\* the script evaluated in the page (lines 137-151): anchors with an href,
\* resolved against the request's URL, kept when the URL includes the domain
JsProductLinks(anchors, baseUrl) ==
    LET resolved == [k \in 1..Len(SelectSeq(anchors, LAMBDA a : a # <<>>)) |->
                        Resolve(SelectSeq(anchors, LAMBDA a : a # <<>>)[k], baseUrl)]
    IN  SelectSeq(resolved, AllowedUrl)

\* lines 154-157
FilterIgnored(product_links) ==
    SelectSeq(product_links, LAMBDA u : ~IgnoredUrl(u))

\* lines 161-162: filtered_links[i:i+BATCH_SIZE], i counted from 0
Batch(filtered_links, i) ==
    SubSeq(filtered_links, i + 1,
           IF i + BATCH_SIZE < Len(filtered_links) THEN i + BATCH_SIZE
           ELSE Len(filtered_links))

\* lines 178-179
NextAdmitted(next_url) ==
    /\ next_url # <<>>
    /\ AllowedUrl(next_url)
    /\ ~IgnoredUrl(next_url)

\* ------------------------------------------------------------ dispatch
\* a faulty variant: only the first marker is looked for
Blocked_FirstMarkerOnly(title) == Contains(title, <<"Just a moment">>)

\* line 92: a challenge marker in the title
Blocked(title) ==
    Contains(title, <<"Just a moment">>) \/ Contains(title, <<"Access denied">>)

\* a faulty variant: both blocks are required
DetectLabel_Both(hasPrice, hasOfferList) ==
    IF hasPrice /\ hasOfferList THEN "PRODUCT" ELSE "CATEGORY"

\* lines 103-107: the DETECT heuristic
DetectLabel(hasPrice, hasOfferList) ==
    IF hasPrice \/ hasOfferList THEN "PRODUCT" ELSE "CATEGORY"

\* a faulty variant: category handling is entered for a label nobody assigns
Dispatch_Listing(label) ==
    CASE label = "LISTING" -> "evaluate_links"
      [] label = "PRODUCT" -> "content"
      [] OTHER -> "idle"

\* lines 110-120: where the handler goes for a label: category handling
\* awaits its first evaluate, product handling awaits page.content(), any
\* other label falls through to the end of the handler
Dispatch(label) ==
    CASE label = "CATEGORY" -> "evaluate_links"
      [] label = "PRODUCT" -> "content"
      [] OTHER -> "idle"

\* a faulty variant: off by one
LimitReached_Strict(maxp, count) == maxp # 0 /\ count > maxp

\* lines 79 and 189: max_products and product_count >= max_products
LimitReached(maxp, count) == maxp # 0 /\ count >= maxp

\* ----------------------------------------------------------------- input
\* line 23: actor_input.get('maxPages') or actor_input.get('maxRequestsPerCrawl', 100)
MaxPagesOf(maxPages, maxRequests) ==
    IF maxPages # Absent /\ maxPages # 0 THEN maxPages
    ELSE IF maxRequests # Absent THEN maxRequests
    ELSE DefaultMaxPages

\* line 24: actor_input.get('maxProducts', 1000)
MaxProductsOf(maxProducts) ==
    IF maxProducts # Absent THEN maxProducts ELSE DefaultMaxProducts

\* ------------------------------------------------------------ extraction
\* Python's None, and a key that is absent, for the string-valued fields
None == "None"

\* offer.get('availability', '').split('/')[-1] (line 235); the availability
\* is a sequence of tokens, "/" among them
LastSegment(avail) ==
    IF avail = <<>> \/ avail[Len(avail)] = Slash THEN "" ELSE avail[Len(avail)]

\* line 237: `if price:`
Truthy(v) == v # None /\ v # ""

RECURSIVE StorePrices(_)
\* lines 230-243, over the offers already cut to the first ten
StorePrices(offers) ==
    IF offers = <<>> THEN <<>>
    ELSE LET offer == Head(offers)
             store_name == IF offer.seller_is_dict THEN offer.seller_name ELSE "Unknown"
         IN  (IF offer.is_dict /\ Truthy(offer.price)
              THEN << [store |-> store_name, price |-> offer.price,
                       currency |-> "CZK",
                       availability |-> LastSegment(offer.availability)] >>
              ELSE <<>>) \o StorePrices(Tail(offers))

\* a faulty variant: the list is not cut
TopOffers_All(offer_list) == offer_list

\* line 230: offer_list[:10]
TopOffers(offer_list) ==
    SubSeq(offer_list, 1, IF Len(offer_list) < TOP_OFFERS THEN Len(offer_list) ELSE TOP_OFFERS)

\* lines 197-203: the defaults
DefaultFields ==
    [title |-> "Unknown", brand |-> "Unknown", rating |-> None, review_count |-> None,
     lowest_price |-> "N/A", highest_price |-> "N/A", store_prices |-> <<>>]

\* lines 213-244: the fields taken from the first item of type Product
FromItem(item) ==
    [title |-> IF item.name # None THEN item.name ELSE "Unknown",
     brand |-> IF item.brand # None THEN item.brand ELSE "Unknown",
     rating |-> item.rating,
     review_count |-> item.reviews,
     lowest_price |-> IF item.offers_is_dict /\ item.lowPrice # None
                      THEN item.lowPrice ELSE "N/A",
     highest_price |-> IF item.offers_is_dict /\ item.highPrice # None
                       THEN item.highPrice ELSE "N/A",
     store_prices |-> IF item.offers_is_dict
                      THEN StorePrices(TopOffers(item.offer_list)) ELSE <<>>]

\* lines 206-246: the JSON-LD strategy; a block that does not parse raises
\* before any field is assigned
FromJsonLd(soup) ==
    IF soup.json_ld = "object" /\ soup.has_graph
    THEN LET products == SelectSeq(soup.graph, LAMBDA it : it.type = "Product")
         IN  IF products = <<>> THEN DefaultFields ELSE FromItem(Head(products))
    ELSE DefaultFields

\* a faulty variant: the heading is never looked at
Extract_NoFallback(url, soup) ==
    LET f == FromJsonLd(soup)
    IN  [url |-> url, title |-> f.title, brand |-> f.brand, rating |-> f.rating,
         review_count |-> f.review_count, lowest_price |-> f.lowest_price,
         highest_price |-> f.highest_price, currency |-> "CZK",
         store_prices |-> f.store_prices]

\* lines 196-265: the record handed to push_data (crawled_at, the wall clock,
\* is left out)
Extract(url, soup) ==
    LET f == FromJsonLd(soup)
        title == IF f.title = "Unknown" /\ soup.h1 # None THEN soup.h1 ELSE f.title
    IN  [url |-> url, title |-> title, brand |-> f.brand, rating |-> f.rating,
         review_count |-> f.review_count, lowest_price |-> f.lowest_price,
         highest_price |-> f.highest_price, currency |-> "CZK",
         store_prices |-> f.store_prices]

\* ------------------------------------------------- the crawled site
\* What the browser can return: page titles, the href attributes of the
\* product anchors, the resolved href of the next-page anchor, page sources.
Titles ==
    { <<"Heureka", "TV">>, <<"Just a moment", "...">>, <<"Access denied">> }

StartUrl == MkUrl(WWW, <<"tv">>)

RelProduct == <<Slash, "p1">>                          \* relative, a product
AbsProduct == MkUrl(WWW, <<"p2">>)                     \* absolute, a product
ThirdProduct == MkUrl(WWW, <<"p3">>)                   \* absolute, one more product
IgnoredHost == MkUrl(UCET, <<"login">>)                \* an ignored subdomain
IgnoredQuery == <<Slash, "go=", "ucet", ".heureka.cz">> \* ignored text in the query
OtherSite == MkUrl(EVIL, <<"x">>)                      \* another site
OtherSiteQuery == MkUrl(EVIL, <<"r=", ".heureka.cz">>) \* another site, domain in the query
EmptyHref == <<>>

Hrefs ==
    {RelProduct, AbsProduct, IgnoredHost, IgnoredQuery, OtherSite, OtherSiteQuery,
     EmptyHref}

\* the product anchors of a category page: none, any one, or one of a few pairs
AnchorLists ==
    {<<>>} \cup {<<a>> : a \in Hrefs}
           \cup { <<RelProduct, AbsProduct>>, <<IgnoredHost, OtherSiteQuery>> }

NextLinks ==
    { <<>>,
      MkUrl(WWW, <<"tv", "page=2">>),
      IgnoredHost,
      OtherSiteQuery,
      OtherSite }

MkOffer(seller_name, price, avail) ==
    [is_dict |-> TRUE, seller_is_dict |-> TRUE, seller_name |-> seller_name,
     price |-> price, availability |-> avail]

InStock == <<"http:", Slash, Slash, "schema.org", Slash, "InStock">>

ProductItem ==
    [type |-> "Product", name |-> "TV X1", brand |-> "Acme",
     rating |-> "4.5", reviews |-> "12", offers_is_dict |-> TRUE,
     lowPrice |-> "199", highPrice |-> "210",
     offer_list |-> << MkOffer("ShopA", "199", InStock),
                       MkOffer("ShopB", None, <<>>),
                       MkOffer(None, "210", <<>>) >>]

OtherItem ==
    [type |-> "WebPage", name |-> "Heureka", brand |-> None,
     rating |-> None, reviews |-> None, offers_is_dict |-> FALSE,
     lowPrice |-> None, highPrice |-> None, offer_list |-> <<>>]

\* page sources: no JSON-LD block, one that does not parse, one with a product
NoJsonLdSoup ==
    [json_ld |-> "none", has_graph |-> FALSE, graph |-> <<>>, h1 |-> "Wireless Mouse X1"]

MalformedSoup ==
    [json_ld |-> "malformed", has_graph |-> FALSE, graph |-> <<>>,
     h1 |-> "Wireless Mouse X1"]

ProductSoup ==
    [json_ld |-> "object", has_graph |-> TRUE, graph |-> <<OtherItem, ProductItem>>,
     h1 |-> "TV X1 heading"]

Soups == {NoJsonLdSoup, MalformedSoup, ProductSoup}

\* a long offer list: every fourth entry has no price, every fifth no seller
\* name, the seventh is not an object
LongOfferList ==
    [k \in 1..MaxOffers |->
        [is_dict |-> (k # 7), seller_is_dict |-> (k # 2),
         seller_name |-> IF k % 5 = 0 THEN None ELSE ToString(k),
         price |-> IF k % 4 = 0 THEN None ELSE ToString(100 + k),
         availability |-> IF k % 2 = 0 THEN InStock ELSE <<>>]]

\* a long offer list without gaps
FullOfferList ==
    [k \in 1..MaxOffers |-> MkOffer(ToString(k), ToString(100 + k), InStock)]

OfferLists ==
    {SubSeq(LongOfferList, 1, n) : n \in 0..MaxOffers}
        \cup {SubSeq(LongOfferList, m, MaxOffers) : m \in 2..3}
        \cup {FullOfferList}

\* page sources with and without a heading, with no JSON-LD block, with one
\* that does not parse, with one without a product, with offer lists
ExtractSoups ==
    Soups
    \cup {[json_ld |-> j, has_graph |-> FALSE, graph |-> <<>>, h1 |-> t] :
             j \in {"none", "malformed", "object"}, t \in {None, "Wireless Mouse X1"}}
    \cup {[json_ld |-> "object", has_graph |-> TRUE, graph |-> <<OtherItem>>, h1 |-> t] :
             t \in {None, "Wireless Mouse X1"}}
    \cup {[json_ld |-> "object", has_graph |-> TRUE,
           graph |-> <<[ProductItem EXCEPT !.offer_list = l]>>, h1 |-> None] :
             l \in OfferLists}

\* the page sources of a site
SoupsOf(s) ==
    IF s = "offers" THEN ExtractSoups
    ELSE IF s \in {"endless", "catalog"} THEN {ProductSoup}
    ELSE Soups

\* the product anchors a page of a site can have
AnchorListsOf(s) ==
    IF s = "endless" THEN {<<>>, <<RelProduct>>, <<RelProduct, AbsProduct>>}
    ELSE IF s = "catalog" THEN {<<>>, <<RelProduct, AbsProduct, ThirdProduct>>}
    ELSE AnchorLists

\* the next page of a listing that never ends
NextPageOf(url) == url \o <<"next">>

\* the next-page anchors a page of a site can have
NextLinksOf(s, url) ==
    IF s = "endless" THEN {<<>>, StartUrl, NextPageOf(url)}
    ELSE IF s = "catalog" THEN {<<>>, MkUrl(WWW, <<"tv", "page=2">>)}
    ELSE NextLinks

\* --------------------------------------------------------------- state
VARIABLES
    site,            \* which of the sites below the crawler is run on
    maxPagesInput,   \* the input's maxPages as given (Absent: not given)
    max_pages,       \* line 23
    max_products,    \* line 24
    product_count,   \* line 47
    queue,           \* the host's request queue: requests waiting
    seen,            \* URLs the host's queue has ever held (its deduplication)
    pagesProcessed,  \* requests the host has taken up
    pc,              \* per worker: the await its handler is suspended at
    req,             \* per worker: context.request
    loc,             \* per worker: the handler's local variables
    dataset,         \* the output sink: records pushed, in order
    enqueued,        \* every (url, label) handed to context.enqueue_links
    enqueueCalls,    \* number of calls of context.enqueue_links
    skipLog,         \* URLs logged "Reached max products limit" (line 80)
    blockLog,        \* URLs logged "Blocked by Cloudflare" (line 93)
    hist             \* history: outcomes of the check of line 189, late pushes

vars ==
    <<site, maxPagesInput, max_pages, max_products, product_count, queue, seen,
      pagesProcessed, pc, req, loc, dataset, enqueued, enqueueCalls,
      skipLog, blockLog, hist>>

NoReq == [url |-> <<>>, label |-> ""]
NoLoc == [title |-> <<>>, label |-> "", hasPrice |-> FALSE, hasOfferList |-> FALSE,
          product_links |-> <<>>, links |-> <<>>, i |-> 0, next_url |-> <<>>, soup |-> <<>>, data |-> <<>>,
          late |-> FALSE]

InputMaxPages == {Absent, 0} \cup (1..MaxPagesIn)
InputMaxRequests == {Absent, 1}
InputMaxProducts == {Absent, 0} \cup (1..MaxProductsIn)

\* lines 47 and 272-280: the counter is 0, the crawler is run on the start
\* URLs (requests without a label), no handler is running
Start ==
    /\ product_count = 0
    /\ queue = {[url |-> StartUrl, label |-> "DETECT"]}
    /\ seen = {StartUrl}
    /\ pagesProcessed = 0
    /\ pc = [h \in Workers |-> "idle"]
    /\ req = [h \in Workers |-> NoReq]
    /\ loc = [h \in Workers |-> NoLoc]
    /\ dataset = <<>>
    /\ enqueued = {}
    /\ enqueueCalls = 0
    /\ skipLog = {}
    /\ blockLog = {}
    /\ hist = [admitted |-> 0, rejected |-> 0, late |-> 0]

\* lines 19-24: the input is read
ReadInput(maxPages, maxRequestsPerCrawl, maxProducts) ==
    /\ maxPagesInput = maxPages
    /\ max_pages = MaxPagesOf(maxPages, maxRequestsPerCrawl)
    /\ max_products = MaxProductsOf(maxProducts)

\* lines 19-47 and 280, on the small site, for every input
Init ==
    /\ site = "shop"
    /\ \E input \in [maxPages : InputMaxPages,
                       maxRequestsPerCrawl : InputMaxRequests,
                       maxProducts : InputMaxProducts] :
          ReadInput(input.maxPages, input.maxRequestsPerCrawl, input.maxProducts)
    /\ Start

\* ------------------------------------------------------------- helpers
\* the handler returns: the worker is free again
Return(h) ==
    /\ pc' = [pc EXCEPT ![h] = "idle"]
    /\ req' = [req EXCEPT ![h] = NoReq]
    /\ loc' = [loc EXCEPT ![h] = NoLoc]

\* a faulty variant: the label is not passed on, the requests are unlabelled
Call_NoLabel(urls, label) ==
    /\ enqueued' = enqueued \cup {[url |-> urls[k], label |-> "DETECT"] : k \in 1..Len(urls)}
    /\ enqueueCalls' = enqueueCalls + 1

\* context.enqueue_links(urls=urls, label=label, strategy='same-domain') is
\* called: the URLs are handed to the host
Call(urls, label) ==
    /\ enqueued' = enqueued \cup {[url |-> urls[k], label |-> label] : k \in 1..Len(urls)}
    /\ enqueueCalls' = enqueueCalls + 1

\* the host carries the call out: URLs of the request's own domain that its
\* queue has not held yet become requests with the label
HostEnqueue(h, urls, label) ==
    LET new == {u \in Range(urls) : DomainOf(u) = DomainOf(req[h].url) /\ u \notin seen}
    IN  /\ queue' = queue \cup {[url |-> u, label |-> label] : u \in new}
        /\ seen' = seen \cup new

\* lines 110-116: the handler, its locals being l, enters category or
\* product handling and is suspended at its first await; late records
\* whether the product limit was reached when category handling was entered
Enter(h, l, label) ==
    IF Dispatch(label) = "idle"
    THEN Return(h)
    ELSE /\ pc' = [pc EXCEPT ![h] = Dispatch(label)]
         /\ loc' = [loc EXCEPT ![h] =
                       [l EXCEPT !.label = label,
                                 !.late = (label = "CATEGORY"
                                           /\ LimitReached(max_products, product_count))]]
         /\ UNCHANGED req

\* ------------------------------------------------------------- actions
\* a faulty variant of the host: the request taken is not counted
Fetch_NoCount(h) ==
    /\ pc[h] = "idle"
    /\ \A g \in Workers : g < h => pc[g] # "idle"
    /\ pagesProcessed < max_pages
    /\ \E r \in queue :
          /\ queue' = queue \ {r}
          /\ req' = [req EXCEPT ![h] = r]
    /\ pc' = [pc EXCEPT ![h] = "navigate"]
    /\ UNCHANGED <<site, maxPagesInput, max_pages, max_products, product_count, seen, loc,
                   pagesProcessed, dataset, enqueued, enqueueCalls, skipLog, blockLog,
                   hist>>

\* the host (crawler.run, lines 272-280) takes a request off its queue for
\* a free worker (the first one: workers are interchangeable), unless
\* max_requests_per_crawl requests were taken, and navigates to it
Fetch(h) ==
    /\ pc[h] = "idle"
    /\ \A g \in Workers : g < h => pc[g] # "idle"
    /\ pagesProcessed < max_pages
    /\ \E r \in queue :
          /\ queue' = queue \ {r}
          /\ req' = [req EXCEPT ![h] = r]
    /\ pagesProcessed' = pagesProcessed + 1
    /\ pc' = [pc EXCEPT ![h] = "navigate"]
    /\ UNCHANGED <<site, maxPagesInput, max_pages, max_products, product_count, seen, loc,
                   dataset, enqueued, enqueueCalls, skipLog, blockLog, hist>>

\* lines 75-88: the handler is invoked; it checks the product limit and
\* awaits wait_for_selector
RequestHandler(h) ==
    /\ pc[h] = "navigate"
    /\ IF LimitReached(max_products, product_count)
       THEN /\ skipLog' = skipLog \cup {req[h].url}
            /\ Return(h)
       ELSE /\ pc' = [pc EXCEPT ![h] = "wait_for_selector"]
            /\ UNCHANGED <<skipLog, req, loc>>
    /\ UNCHANGED <<site, maxPagesInput, max_pages, max_products, product_count, queue, seen,
                   pagesProcessed, dataset, enqueued, enqueueCalls, blockLog, hist>>

\* lines 88-91: wait_for_selector is over; the handler awaits page.title()
WaitForSelector(h) ==
    /\ pc[h] = "wait_for_selector"
    /\ pc' = [pc EXCEPT ![h] = "title"]
    /\ UNCHANGED <<site, maxPagesInput, max_pages, max_products, product_count, queue, seen,
                   pagesProcessed, req, loc, dataset, enqueued, enqueueCalls,
                   skipLog, blockLog, hist>>

\* lines 91-116: the title is there; a blocked page ends the handler, a
\* DETECT label awaits the evaluation of the heuristic, an explicit label
\* is dispatched
Title(h) ==
    /\ pc[h] = "title"
    /\ \E title \in Titles :
          IF Blocked(title)
          THEN /\ blockLog' = blockLog \cup {req[h].url}
               /\ Return(h)
          ELSE /\ UNCHANGED blockLog
               /\ IF req[h].label = "DETECT"
                  THEN /\ pc' = [pc EXCEPT ![h] = "evaluate_detect"]
                       /\ loc' = [loc EXCEPT ![h].title = title, ![h].label = "DETECT"]
                       /\ UNCHANGED req
                  ELSE Enter(h, [loc[h] EXCEPT !.title = title], req[h].label)
    /\ UNCHANGED <<site, maxPagesInput, max_pages, max_products, product_count, queue, seen,
                   pagesProcessed, dataset, enqueued, enqueueCalls, skipLog, hist>>

\* lines 103-116: the heuristic's result is there: whether the page holds a
\* price block, an offer list
EvaluateDetect(h) ==
    /\ pc[h] = "evaluate_detect"
    /\ \E hasPrice \in BOOLEAN, hasOfferList \in BOOLEAN :
          Enter(h, [loc[h] EXCEPT !.hasPrice = hasPrice, !.hasOfferList = hasOfferList],
                DetectLabel(hasPrice, hasOfferList))
    /\ UNCHANGED <<site, maxPagesInput, max_pages, max_products, product_count, queue, seen,
                   pagesProcessed, dataset, enqueued, enqueueCalls, skipLog, blockLog,
                   hist>>

\* lines 137-173: the product links are there; they are filtered and the
\* first batch is handed to enqueue_links, or, with no link left, the
\* next-page anchor is asked for
EvaluateLinks(h) ==
    /\ pc[h] = "evaluate_links"
    /\ \E anchors \in AnchorListsOf(site) :
          LET product_links == JsProductLinks(anchors, req[h].url)
              filtered_links == FilterIgnored(product_links)
          IN  /\ loc' = [loc EXCEPT ![h].product_links = product_links,
                                    ![h].links = filtered_links, ![h].i = 0]
              /\ IF filtered_links # <<>>
                 THEN /\ Call(Batch(filtered_links, 0), "PRODUCT")
                      /\ pc' = [pc EXCEPT ![h] = "enqueue_links"]
                 ELSE /\ pc' = [pc EXCEPT ![h] = "evaluate_next"]
                      /\ UNCHANGED <<enqueued, enqueueCalls>>
    /\ UNCHANGED <<site, maxPagesInput, max_pages, max_products, product_count, queue, seen,
                   pagesProcessed, req, dataset, skipLog, blockLog, hist>>

\* lines 161-176: a batch's enqueue_links is over; the next batch is handed
\* over, or the next-page anchor is asked for
EnqueueLinks(h) ==
    /\ pc[h] = "enqueue_links"
    /\ HostEnqueue(h, Batch(loc[h].links, loc[h].i), "PRODUCT")
    /\ IF loc[h].i + BATCH_SIZE < Len(loc[h].links)
       THEN /\ loc' = [loc EXCEPT ![h].i = loc[h].i + BATCH_SIZE]
            /\ Call(Batch(loc[h].links, loc[h].i + BATCH_SIZE), "PRODUCT")
            /\ UNCHANGED pc
       ELSE /\ pc' = [pc EXCEPT ![h] = "evaluate_next"]
            /\ UNCHANGED <<loc, enqueued, enqueueCalls>>
    /\ UNCHANGED <<site, maxPagesInput, max_pages, max_products, product_count, pagesProcessed,
                   req, dataset, skipLog, blockLog, hist>>

\* lines 173-185: the next-page link is there; it is handed to enqueue_links
\* when it passes, else the handler ends
EvaluateNext(h) ==
    /\ pc[h] = "evaluate_next"
    /\ \E next_url \in NextLinksOf(site, req[h].url) :
          IF NextAdmitted(next_url)
          THEN /\ Call(<<next_url>>, "CATEGORY")
               /\ pc' = [pc EXCEPT ![h] = "enqueue_next"]
               /\ loc' = [loc EXCEPT ![h].next_url = next_url]
               /\ UNCHANGED req
          ELSE /\ Return(h)
               /\ UNCHANGED <<enqueued, enqueueCalls>>
    /\ UNCHANGED <<site, maxPagesInput, max_pages, max_products, product_count, queue, seen,
                   pagesProcessed, dataset, skipLog, blockLog, hist>>

\* a faulty variant: a category page handled is counted as a product
EnqueueNext_Counts(h) ==
    /\ pc[h] = "enqueue_next"
    /\ HostEnqueue(h, <<loc[h].next_url>>, "CATEGORY")
    /\ product_count' = product_count + 1
    /\ Return(h)
    /\ UNCHANGED <<site, maxPagesInput, max_pages, max_products, pagesProcessed,
                   dataset, enqueued, enqueueCalls, skipLog, blockLog, hist>>

\* lines 181-185: the next-page link's enqueue_links is over; the handler ends
EnqueueNext(h) ==
    /\ pc[h] = "enqueue_next"
    /\ HostEnqueue(h, <<loc[h].next_url>>, "CATEGORY")
    /\ Return(h)
    /\ UNCHANGED <<site, maxPagesInput, max_pages, max_products, product_count, pagesProcessed,
                   dataset, enqueued, enqueueCalls, skipLog, blockLog, hist>>

\* lines 114-116 and 187-267: the page source is there; handle_product
\* checks the limit, builds the record and awaits push_data
Content(h) ==
    /\ pc[h] = "content"
    /\ \E soup \in SoupsOf(site) :
          IF LimitReached(max_products, product_count)
          THEN /\ hist' = [hist EXCEPT !.rejected = hist.rejected + 1]
               /\ Return(h)
          ELSE /\ hist' = [hist EXCEPT !.admitted = hist.admitted + 1]
               /\ loc' = [loc EXCEPT ![h].soup = <<soup>>,
                                      ![h].data = <<Extract(req[h].url, soup)>>]
               /\ pc' = [pc EXCEPT ![h] = "push_data"]
               /\ UNCHANGED req
    /\ UNCHANGED <<site, maxPagesInput, max_pages, max_products, product_count, queue, seen,
                   pagesProcessed, dataset, enqueued, enqueueCalls, skipLog, blockLog>>

\* a faulty variant: the push is given up when the limit was reached meanwhile
PushData_Recheck(h) ==
    /\ pc[h] = "push_data"
    /\ IF LimitReached(max_products, product_count)
       THEN /\ Return(h)
            /\ UNCHANGED <<dataset, hist>>
       ELSE /\ dataset' = Append(dataset, loc[h].data[1])
            /\ pc' = [pc EXCEPT ![h] = "pushed"]
            /\ UNCHANGED <<hist, req, loc>>
    /\ UNCHANGED <<site, maxPagesInput, max_pages, max_products, product_count, queue, seen,
                   pagesProcessed, enqueued, enqueueCalls, skipLog, blockLog>>

\* a faulty variant: the record is handed over twice
PushData_Twice(h) ==
    /\ pc[h] = "push_data"
    /\ dataset' = dataset \o <<loc[h].data[1], loc[h].data[1]>>
    /\ hist' = [hist EXCEPT !.late = hist.late
                   + (IF LimitReached(max_products, product_count) THEN 1 ELSE 0)]
    /\ pc' = [pc EXCEPT ![h] = "pushed"]
    /\ UNCHANGED <<site, maxPagesInput, max_pages, max_products, product_count, queue,
                   seen, pagesProcessed, req, loc, enqueued, enqueueCalls, skipLog,
                   blockLog>>

\* line 267: the output sink stores the record; hist.late counts the records
\* stored while the limit was already reached
PushData(h) ==
    /\ pc[h] = "push_data"
    /\ dataset' = Append(dataset, loc[h].data[1])
    /\ hist' = [hist EXCEPT !.late = hist.late
                   + (IF LimitReached(max_products, product_count) THEN 1 ELSE 0)]
    /\ pc' = [pc EXCEPT ![h] = "pushed"]
    /\ UNCHANGED <<site, maxPagesInput, max_pages, max_products, product_count, queue, seen,
                   pagesProcessed, req, loc, enqueued, enqueueCalls, skipLog,
                   blockLog>>

\* lines 268-269 and 117-120: the handler goes on after push_data: it
\* increments the counter and ends
Increment(h) ==
    /\ pc[h] = "pushed"
    /\ product_count' = product_count + 1
    /\ Return(h)
    /\ UNCHANGED <<site, maxPagesInput, max_pages, max_products, queue, seen, pagesProcessed,
                   dataset, enqueued, enqueueCalls, skipLog, blockLog, hist>>

Next ==
    \E h \in Workers :
        \/ Fetch(h)
        \/ RequestHandler(h)
        \/ WaitForSelector(h)
        \/ Title(h)
        \/ EvaluateDetect(h)
        \/ EvaluateLinks(h)
        \/ EnqueueLinks(h)
        \/ EvaluateNext(h)
        \/ EnqueueNext(h)
        \/ Content(h)
        \/ PushData(h)
        \/ Increment(h)

Spec == Init /\ [][Next]_vars

\* the same crawler on the site with the many page sources, for one input:
\* a few pages, the default product limit
InitExtract ==
    /\ site = "offers"
    /\ ReadInput(ExtractPages, Absent, Absent)
    /\ Start

SpecExtract == InitExtract /\ [][Next]_vars

\* the same crawler on the site whose listing never ends, with the event
\* loop's fair scheduling of the coroutines that can run
InitEndless ==
    /\ site = "endless"
    /\ \E maxPages \in {1, MaxPagesIn}, maxProducts \in {Absent, MaxProductsIn} :
          ReadInput(maxPages, Absent, maxProducts)
    /\ Start

\* the same crawler on a site with more product pages than workers, with a
\* product limit and pages enough to visit them all
InitCatalog ==
    /\ site = "catalog"
    /\ \E maxProducts \in 1..MaxProductsIn : ReadInput(MaxPagesIn + 1, Absent, maxProducts)
    /\ Start

SpecCatalog == InitCatalog /\ [][Next]_vars

WorkerStep(h) ==
    \/ Fetch(h) \/ RequestHandler(h) \/ WaitForSelector(h) \/ Title(h)
    \/ EvaluateDetect(h) \/ EvaluateLinks(h) \/ EnqueueLinks(h) \/ EvaluateNext(h)
    \/ EnqueueNext(h) \/ Content(h) \/ PushData(h) \/ Increment(h)

SpecFair ==
    InitEndless /\ [][Next]_vars /\ \A h \in Workers : WF_vars(WorkerStep(h))

\* =============================================================== claims
CategoryPcs == {"evaluate_links", "enqueue_links", "evaluate_next", "enqueue_next"}
ProductPcs == {"content", "push_data", "pushed"}

\* worker h takes the step
Moved(h) == pc'[h] # pc[h] \/ loc'[h] # loc[h] \/ req'[h] # req[h]

\* the product quota is configured (>= 1) and reached
QuotaReached == max_products >= 1 /\ product_count >= max_products

\* C1: with maxProducts >= 1, the number of records pushed to the output
\* sink never exceeds maxProducts, in any interleaving of the handlers.
C1_PushedWithinMaxProducts ==
    max_products >= 1 => Len(dataset) <= max_products

\* C2: once more than maxProducts = k product handlers have made the
\* admission check of handle_product, exactly k of them have passed it (the
\* others were skipped): test and increment act as one atomic step.
C2_ExactlyKAdmitted ==
    (max_products >= 1 /\ hist.admitted + hist.rejected > max_products)
        => hist.admitted = max_products

\* C3: every URL handed to enqueue_links by category handling has a host
\* that ends with the allowed domain suffix '.heureka.cz'.
C3_EnqueuedHostAllowed ==
    \A e \in enqueued : IsSuffix(<<".heureka.cz">>, HostOf(e.url))

\* C4: no URL containing an IGNORE_DOMAINS entry is ever handed to
\* enqueue_links, as a product link or as the next-page link.
C4_NoIgnoredUrlEnqueued ==
    \A e \in enqueued :
        \A d \in 1..Len(IGNORE_DOMAINS) : ~Contains(e.url, IGNORE_DOMAINS[d])

\* C4's case: a page whose product links held an ignored URL had its links
\* filtered and the rest handed to enqueue_links
C4_Witness ==
    \E h \in Workers :
        /\ pc[h] = "enqueue_links"
        /\ \E k \in 1..Len(loc[h].product_links) :
              Contains(loc[h].product_links[k], <<"ucet", ".heureka.cz">>)
        /\ \E e \in enqueued : e.url \in Range(loc[h].links)

HasMarker(title) ==
    Contains(title, <<"Just a moment">>) \/ Contains(title, <<"Access denied">>)

\* C5: a page whose title contains "Just a moment" or "Access denied" ends
\* its handler at the title check: the handler never gets past it, and the
\* step that ends it makes no enqueue call, pushes no record and leaves
\* product_count alone, whatever the request's label.
C5_BlockedPageNoEffect ==
    /\ [](\A h \in Workers :
            pc[h] \in CategoryPcs \cup ProductPcs \cup {"evaluate_detect"}
                => ~HasMarker(loc[h].title))
    /\ [][blockLog' # blockLog =>
            /\ \E h \in Workers : pc[h] = "title" /\ pc'[h] = "idle"
            /\ UNCHANGED <<enqueued, enqueueCalls, dataset, product_count, queue>>]_vars

\* C5's case: a blocked page of a request labelled PRODUCT was met
C5_Witness ==
    /\ Resolve(RelProduct, StartUrl) \in blockLog
    /\ [url |-> Resolve(RelProduct, StartUrl), label |-> "PRODUCT"] \in enqueued

\* C6: a page past the dispatch is in the handling that classify(label,
\* signals) names: an explicit CATEGORY or PRODUCT label is used unchanged;
\* for DETECT it is PRODUCT if either signal is true and CATEGORY otherwise.
\* (For an explicit label the signals are never read: the fields keep FALSE.)
C6_DispatchIsClassify ==
    \A h \in Workers :
        pc[h] \in CategoryPcs \cup ProductPcs =>
            LET expected ==
                    IF req[h].label \in {"CATEGORY", "PRODUCT"} THEN req[h].label
                    ELSE IF loc[h].hasPrice \/ loc[h].hasOfferList THEN "PRODUCT"
                    ELSE "CATEGORY"
            IN  /\ req[h].label \in {"DETECT", "CATEGORY", "PRODUCT"}
                /\ (pc[h] \in ProductPcs) = (expected = "PRODUCT")
                /\ (pc[h] \in CategoryPcs) = (expected = "CATEGORY")

\* C6's case: a DETECT page with a price block and no offer list is in
\* product handling
C6_Witness ==
    \E h \in Workers :
        /\ req[h].label = "DETECT"
        /\ loc[h].hasPrice /\ ~loc[h].hasOfferList
        /\ pc[h] = "content"

\* C7: a handler whose category handling was entered with the product quota
\* already reached makes no enqueue call.
C7_NoEnqueueOnceQuotaReached ==
    [][\A h \in Workers :
          (loc[h].late /\ Moved(h)) => enqueueCalls' = enqueueCalls]_vars

\* C8: with a non-negative maxPages in the input, the number of pages the
\* request handler is run on never exceeds it.
C8_PagesWithinInputMaxPages ==
    maxPagesInput >= 0 => pagesProcessed <= maxPagesInput

\* C9 as claimed: a handler that passed the check at its start and whose
\* page is classified PRODUCT goes on to push its record.
C9_StartedProductPushes ==
    [][\A h \in Workers :
          (pc[h] = "content" /\ Moved(h)) => pc'[h] = "push_data"]_vars

\* C9 as amended: a handler that has passed the check of handle_product
\* completes whatever product_count has become meanwhile: its record is
\* stored, then product_count is incremented; a PRODUCT page's handler goes
\* on to push exactly when the quota is not reached at the check of
\* handle_product.
C9_AdmittedProductCompletes ==
    [][\A h \in Workers :
          /\ (pc[h] = "content" /\ Moved(h))
                => ((pc'[h] = "push_data")
                        = ~(max_products # 0 /\ product_count >= max_products))
          /\ (pc[h] = "push_data" /\ Moved(h))
                => /\ pc'[h] = "pushed"
                   /\ dataset' = Append(dataset, loc[h].data[1])
          /\ (pc[h] = "pushed" /\ Moved(h))
                => /\ pc'[h] = "idle"
                   /\ product_count' = product_count + 1]_vars

\* C9's case: a record was stored while the quota was already reached, and
\* the handlers went on to increment product_count past the quota
C9_Witness ==
    /\ max_products >= 1
    /\ hist.late >= 1
    /\ product_count > max_products

\* C10: product_count never decreases, so a reached quota stays reached, and
\* a handler invoked with the quota reached returns at once: no enqueue
\* call, no record pushed, product_count unchanged.
C10_QuotaReachedStays ==
    [][/\ product_count' >= product_count
       /\ max_products' = max_products
       /\ QuotaReached => QuotaReached'
       /\ \A h \in Workers :
             (QuotaReached /\ pc[h] = "navigate" /\ Moved(h))
                 => /\ pc'[h] = "idle"
                    /\ UNCHANGED <<product_count, dataset, enqueued, enqueueCalls,
                                   queue>>]_vars

\* C10's case: a handler was invoked after the quota was reached and skipped
C10_Witness ==
    /\ QuotaReached
    /\ skipLog # {}

\* the handlers suspended at an await
At(p) == {h \in Workers : pc[h] = p}

\* the records pushed for a URL
RecordsOf(url) == {k \in 1..Len(dataset) : dataset[k].url = url}

\* C11: every product page that passed the check of line 189 has exactly one
\* record pushed and one increment of product_count, the increment after the
\* push: the pages admitted are the records pushed plus the handlers still
\* before push_data, the records pushed are the increments plus the handlers
\* between push_data and the increment, a handler before push_data has no
\* record yet, one after it has exactly one, and no URL has two records.
C11_OneRecordOneIncrement ==
    /\ hist.admitted = Len(dataset) + Cardinality(At("push_data"))
    /\ Len(dataset) = product_count + Cardinality(At("pushed"))
    /\ \A h \in At("push_data") : RecordsOf(req[h].url) = {}
    /\ \A h \in At("pushed") :
          /\ Cardinality(RecordsOf(req[h].url)) = 1
          /\ \A k \in RecordsOf(req[h].url) : dataset[k] = loc[h].data[1]
    /\ \A k \in 1..Len(dataset) : RecordsOf(dataset[k].url) = {k}

C11_Witness ==
    /\ hist.admitted = 2 /\ Len(dataset) = 2 /\ product_count = 2
    /\ \A h \in Workers : pc[h] = "idle"


\* the page source a product handler is working on has no JSON-LD block, or
\* one that does not parse
NoStructuredData(h) ==
    /\ loc[h].soup # <<>>
    /\ loc[h].soup[1].json_ld \in {"none", "malformed"}

\* C12: when the JSON-LD block is absent or does not parse, the extraction
\* does not fail: the handler goes on to push_data (and from there to the
\* increment), and its record has the heading's text as title when the page
\* has a heading, "Unknown" otherwise, and the defaults in brand ("Unknown"),
\* lowest and highest price ("N/A"), rating and review count (None) and
\* store_prices (empty).
C12_FallbackRecord ==
    /\ [](\A h \in Workers :
            (pc[h] \in {"push_data", "pushed"} /\ NoStructuredData(h)) =>
                /\ loc[h].data[1] =
                      [url |-> req[h].url,
                       title |-> IF loc[h].soup[1].h1 # None
                                 THEN loc[h].soup[1].h1 ELSE "Unknown",
                       brand |-> "Unknown", rating |-> None, review_count |-> None,
                       lowest_price |-> "N/A", highest_price |-> "N/A",
                       currency |-> "CZK", store_prices |-> <<>>]
                /\ pc[h] = "pushed" => \E k \in 1..Len(dataset) : dataset[k] = loc[h].data[1])
    /\ [][\A h \in Workers :
            /\ (Moved(h) /\ pc[h] = "content"
                   /\ ~LimitReached(max_products, product_count))
                  => pc'[h] = "push_data"
            /\ (Moved(h) /\ pc[h] = "push_data")
                  => (pc'[h] = "pushed" /\ dataset' = Append(dataset, loc[h].data[1]))
            /\ (Moved(h) /\ pc[h] = "pushed")
                  => product_count' = product_count + 1]_vars

C12_Witness ==
    \E h \in Workers :
        /\ pc[h] = "pushed"
        /\ NoStructuredData(h)
        /\ loc[h].soup[1].json_ld = "malformed"
        /\ loc[h].soup[1].h1 = None
        /\ loc[h].data[1].title = "Unknown"
        /\ dataset[Len(dataset)] = loc[h].data[1]

\* the offer list of the page source's first item of type Product
SourceOffers(soup) ==
    LET products == IF soup.json_ld = "object" /\ soup.has_graph
                    THEN SelectSeq(soup.graph, LAMBDA it : it.type = "Product")
                    ELSE <<>>
    IN  IF products # <<>> /\ Head(products).offers_is_dict
        THEN Head(products).offer_list ELSE <<>>

\* a record's offer is the source entry: its price, and its seller's name
FromEntry(sp, offer) ==
    /\ offer.is_dict
    /\ sp.price = offer.price
    /\ offer.seller_is_dict => sp.store = offer.seller_name

RECURSIVE IsSubsequence(_, _)
\* the record's offers are taken from the source list, in its order
IsSubsequence(sps, offers) ==
    IF sps = <<>> THEN TRUE
    ELSE IF offers = <<>> THEN FALSE
    ELSE IF FromEntry(Head(sps), Head(offers))
         THEN IsSubsequence(Tail(sps), Tail(offers))
         ELSE IsSubsequence(sps, Tail(offers))

\* C13: the store_prices of a record handed to push_data has at most ten
\* entries, and they are entries of the source's offer list in its order.
C13_OffersCappedInOrder ==
    \A h \in Workers :
        pc[h] \in {"push_data", "pushed"} =>
            /\ Len(loc[h].data[1].store_prices) <= 10
            /\ IsSubsequence(loc[h].data[1].store_prices, SourceOffers(loc[h].soup[1]))
            /\ pc[h] = "pushed" =>
                  \E k \in 1..Len(dataset) :
                      /\ dataset[k].url = req[h].url
                      /\ dataset[k].store_prices = loc[h].data[1].store_prices

C13_Witness ==
    \E h \in Workers :
        /\ pc[h] = "pushed"
        /\ Len(SourceOffers(loc[h].soup[1])) > 10
        /\ Len(loc[h].data[1].store_prices) = 10
        /\ dataset[Len(dataset)].store_prices = loc[h].data[1].store_prices

\* C14: every entry of a record's store_prices comes from a source entry
\* that has both a seller name and a price; a source entry without a price,
\* or without a seller name, is left out.
C14_OffersHaveSellerAndPrice ==
    \A h \in Workers :
        pc[h] \in {"push_data", "pushed"} =>
            LET sps == loc[h].data[1].store_prices
                src == SourceOffers(loc[h].soup[1])
            IN  \A j \in 1..Len(sps) :
                    \E k \in 1..Len(src) :
                        /\ src[k].is_dict
                        /\ Truthy(src[k].price)
                        /\ src[k].seller_is_dict
                        /\ src[k].seller_name # None
                        /\ sps[j].price = src[k].price
                        /\ sps[j].store = src[k].seller_name

\* the URLs of a sequence, each with a label
Labelled(urls, label) == {[url |-> u, label |-> label] : u \in Range(urls)}

\* C15: category handling hands product links to enqueue_links only with
\* the label PRODUCT and the next-page link only with the label CATEGORY,
\* and at most one next-page URL per page: the steps of product-link
\* handling add only the page's filtered links, labelled PRODUCT; the step
\* that has the next-page link makes at most one call, of that one URL
\* labelled CATEGORY, and the handler ends after it.  A first page with one
\* admissible product anchor and an admissible next-page anchor has, when
\* its last call is made, exactly one URL enqueued as PRODUCT and one as
\* CATEGORY.
C15_EnqueueLabels ==
    /\ [](\A h \in Workers :
            (pagesProcessed = 1 /\ pc[h] = "enqueue_next" /\ Len(loc[h].links) = 1) =>
                /\ enqueueCalls = 2
                /\ enqueued = {[url |-> loc[h].links[1], label |-> "PRODUCT"],
                               [url |-> loc[h].next_url, label |-> "CATEGORY"]})
    /\ [][\A h \in Workers : Moved(h) =>
            /\ pc[h] \in {"evaluate_links", "enqueue_links"} =>
                  /\ enqueueCalls' <= enqueueCalls + 1
                  /\ enqueued' \subseteq enqueued \cup Labelled(loc'[h].links, "PRODUCT")
                  /\ queue' \subseteq queue \cup Labelled(loc'[h].links, "PRODUCT")
                  /\ pc'[h] \in {"enqueue_links", "evaluate_next"}
            /\ (pc[h] = "evaluate_links" /\ pc'[h] = "enqueue_links") =>
                  /\ enqueueCalls' = enqueueCalls + 1
                  /\ Labelled(Batch(loc'[h].links, 0), "PRODUCT") \subseteq enqueued'
            /\ pc[h] = "evaluate_next" =>
                  IF pc'[h] = "enqueue_next"
                  THEN /\ enqueueCalls' = enqueueCalls + 1
                       /\ enqueued' = enqueued \cup {[url |-> loc'[h].next_url,
                                                       label |-> "CATEGORY"]}
                  ELSE /\ pc'[h] = "idle"
                       /\ UNCHANGED <<enqueued, enqueueCalls>>
            /\ pc[h] = "enqueue_next" =>
                  /\ pc'[h] = "idle"
                  /\ UNCHANGED <<enqueued, enqueueCalls>>
                  /\ queue' \subseteq queue \cup {[url |-> loc[h].next_url,
                                                    label |-> "CATEGORY"]}]_vars

C15_Witness ==
    \E h \in Workers :
        /\ pagesProcessed = 1 /\ pc[h] = "enqueue_next"
        /\ loc[h].links = <<MkUrl(WWW, <<"p1">>)>>
        /\ loc[h].next_url = MkUrl(WWW, <<"tv", "page=2">>)
        /\ enqueueCalls = 2
        /\ Cardinality({e \in enqueued : e.label = "PRODUCT"}) = 1
        /\ Cardinality({e \in enqueued : e.label = "CATEGORY"}) = 1

\* the run is over: no handler is running, and the host has no request left
\* or has taken max_requests_per_crawl of them
Done ==
    /\ \A h \in Workers : pc[h] = "idle"
    /\ queue = {} \/ pagesProcessed >= max_pages

\* the batches it takes to hand over n links
LinkBatches(n) == IF n <= 0 THEN 0 ELSE ((n - 1) \div BATCH_SIZE) + 1

\* the most product anchors a page has
MostLinks == CHOOSE n \in {Len(a) : a \in AnchorLists} : \A a \in AnchorLists : Len(a) <= n

\* the most steps a handler suspended at an await still takes
StepsLeft(h) ==
    CASE pc[h] = "idle" -> 0
      [] pc[h] = "pushed" -> 1
      [] pc[h] = "push_data" -> 2
      [] pc[h] = "content" -> 3
      [] pc[h] = "enqueue_next" -> 1
      [] pc[h] = "evaluate_next" -> 2
      [] pc[h] = "enqueue_links" -> 2 + LinkBatches(Len(loc[h].links) - loc[h].i)
      [] pc[h] = "evaluate_links" -> 3 + LinkBatches(MostLinks)
      [] pc[h] = "evaluate_detect" -> 4 + LinkBatches(MostLinks)
      [] pc[h] = "title" -> 5 + LinkBatches(MostLinks)
      [] pc[h] = "wait_for_selector" -> 6 + LinkBatches(MostLinks)
      [] pc[h] = "navigate" -> 7 + LinkBatches(MostLinks)

RECURSIVE SumStepsLeft(_)
SumStepsLeft(hs) ==
    IF hs = {} THEN 0
    ELSE LET h == CHOOSE x \in hs : TRUE IN StepsLeft(h) + SumStepsLeft(hs \ {h})

\* the most steps the run still takes: those of the running handlers and a
\* whole handler for every request the host may still take
StepsToGo ==
    (max_pages - pagesProcessed) * (8 + LinkBatches(MostLinks)) + SumStepsLeft(Workers)

\* C16: with the event loop's fair scheduling and the host's deduplicating
\* queue every run terminates, also on a site whose category pages keep
\* yielding new next-page links: eventually no handler is running and the
\* queue is empty or max_requests_per_crawl requests were taken; every step
\* brings the run nearer to that.
C16_Terminates ==
    /\ <>Done
    /\ [](StepsToGo >= 0)
    /\ [][StepsToGo' < StepsToGo]_vars

C16_Witness ==
    /\ Done
    /\ site = "endless"
    /\ pagesProcessed = max_pages
    /\ max_pages > 1
    /\ \E r \in queue : r.label = "CATEGORY" /\ r.url = NextPageOf(NextPageOf(NextPageOf(StartUrl)))

\* C17: dispatch is exhaustive: a handler whose page is not blocked goes,
\* from the title or from the heuristic, into category handling or into
\* product handling, never to its end; and no request, waiting or being
\* handled, has a label that the dispatch lets fall through.
C17_DispatchExhaustive ==
    /\ [](\A r \in queue \cup {req[h] : h \in {g \in Workers : pc[g] # "idle"}} :
            r.label = "DETECT" \/ Dispatch(r.label) \in {"evaluate_links", "content"})
    /\ [][\A h \in Workers : Moved(h) =>
            /\ (pc[h] = "title" /\ blockLog' = blockLog) =>
                  pc'[h] \in (IF req[h].label = "DETECT" THEN {"evaluate_detect"}
                              ELSE {"evaluate_links", "content"})
            /\ pc[h] = "evaluate_detect" => pc'[h] \in {"evaluate_links", "content"}]_vars

C17_Witness ==
    \E h, g \in Workers :
        /\ req[h].label = "CATEGORY" /\ pc[h] = "evaluate_links"
        /\ req[g].label = "PRODUCT" /\ pc[g] = "content"

\* C18: with maxProducts = 0 no product record is ever pushed.
C18_ZeroQuotaPushesNothing ==
    max_products = 0 => dataset = <<>>

\* C19: a step of category handling pushes no record and leaves
\* product_count alone; a step of product handling calls no enqueue_links
\* and adds no request; product_count changes only by the increment of a
\* handler whose push_data has completed, its record being stored.
C19_Frame ==
    [][\A h \in Workers : Moved(h) =>
          /\ pc[h] \in CategoryPcs => UNCHANGED <<dataset, product_count>>
          /\ pc[h] \in ProductPcs => UNCHANGED <<enqueued, enqueueCalls, queue, seen>>
          /\ product_count' # product_count =>
                /\ pc[h] = "pushed"
                /\ product_count' = product_count + 1
                /\ dataset' = dataset
                /\ \E k \in 1..Len(dataset) : dataset[k] = loc[h].data[1]]_vars

C19_Witness ==
    /\ product_count >= 1
    /\ enqueueCalls >= 2
    /\ \E h, g \in Workers : pc[h] = "enqueue_next" /\ pc[g] = "pushed"

\* C20: with maxProducts >= 1 the counter never runs ahead of the records
\* pushed and lags by at most the handlers suspended between push_data and
\* the increment, and the records pushed never exceed maxProducts plus the
\* number of workers minus one.
C20_OvershootBound ==
    max_products >= 1 =>
        /\ product_count <= Len(dataset)
        /\ Len(dataset) <= product_count + Cardinality(At("pushed"))
        /\ Len(dataset) <= max_products + NumWorkers - 1

C20_Witness ==
    /\ max_products >= 1
    /\ Len(dataset) = max_products + NumWorkers - 1
    /\ Cardinality(At("pushed")) = 1
    /\ product_count = max_products

====
